---- MODULE Spec2Model ----
(***************************************************************************)
(* Model of app.py: the human-evaluation form for two blinded peer-review  *)
(* variants ('5_3', '5_5') of a paper.                                     *)
(*                                                                         *)
(* A Python str is modelled as a sequence of tokens.  A token is either    *)
(* one of the four section markers (the literal the regexes search for) or *)
(* a single character: "x" (any character that is neither whitespace nor   *)
(* a hyphen), "-", "\n" and " ".  Markers therefore never overlap.         *)
(***************************************************************************)
EXTENDS Integers, Sequences, FiniteSets, TLC

VARIABLES
    review_text,        \* argument handed to parse_review (parser specification)
    parsed,             \* value returned by parse_review
    parse_pc,           \* "input" before the call, "parsed" after it
    data_store,         \* what load_global_data returned: the four review datasets
    details,            \* last result of get_paper_details (resolver specification)
    selected_name,      \* value of the "Select User" selectbox
    selected_paper_id,  \* value of the "Choose Paper" radio, or NoPaper
    session_state,      \* st.session_state: key -> order binding or widget value
    results_csv,        \* the file at RESULTS_CSV_PATH
    now,                \* the clock read by datetime.now()
    verdict,            \* what the last script run reported about a Submit press
    submitted,          \* history: the batches handed to save_results, in order
    save_pc,            \* per session: where its save_results call stands
    save_records        \* per session: the new_records of its save_results call

parse_vars == <<review_text, parsed, parse_pc>>

form_vars == <<selected_name, selected_paper_id, session_state, now, verdict>>

save_vars == <<save_pc, save_records>>

vars == <<review_text, parsed, parse_pc, data_store, details, selected_name,
          selected_paper_id, session_state, results_csv, now, verdict, submitted,
          save_pc, save_records>>

-----------------------------------------------------------------------------
(* Bounds *)

MaxLen == 5          \* longest review text, in tokens, of the parser specification

MaxSubmits == 2      \* successful submissions of one session

MaxSaves == 4        \* save_results calls of the concurrent specification

-----------------------------------------------------------------------------
(* Python values *)

PyNone == [type |-> "NoneType"]

PyStr(s) == [type |-> "str", val |-> s]

PyDict(d) == [type |-> "dict", val |-> d]

\* isinstance(v, str)
IsStr(v) == v.type = "str"

\* isinstance(v, dict)
IsDict(v) == v.type = "dict"

\* bool(v): None, "" and {} are false
Truthy(v) ==
    CASE v.type = "str" -> v.val # <<>>
      [] v.type = "dict" -> DOMAIN v.val # {}
      [] OTHER -> FALSE

\* d.get(key, default) on a dict value
DictGet(d, key, default) == IF key \in DOMAIN d.val THEN d.val[key] ELSE default

\* dataset.get(paper_id) on a loaded JSON mapping
DatasetGet(dataset, paper_id) ==
    IF paper_id \in DOMAIN dataset THEN dataset[paper_id] ELSE PyNone

-----------------------------------------------------------------------------
(* Text tokens *)

SummaryMarker == "**Summary**"

StrengthsMarker == "**Strengths**"

WeaknessesMarker == "**Weaknesses**"

QuestionsMarker == "**Questions**"

Markers == {SummaryMarker, StrengthsMarker, WeaknessesMarker, QuestionsMarker}

Whitespace == {"\n", " "}

Tokens == Markers \cup {"x", "-", "\n", " "}

\* "Review not available." (one token: the literal is never scanned)
Placeholder == <<"Review not available.">>

-----------------------------------------------------------------------------
(* str methods used by parse_review *)

\* first index i >= from with s[i] = tok, or 0
RECURSIVE IndexFrom(_, _, _)
IndexFrom(s, tok, from) ==
    IF from > Len(s) THEN 0
    ELSE IF s[from] = tok THEN from
    ELSE IndexFrom(s, tok, from + 1)

RECURSIVE LStrip(_)
LStrip(s) ==
    IF s # <<>> /\ Head(s) \in Whitespace THEN LStrip(Tail(s)) ELSE s

RECURSIVE RStrip(_)
RStrip(s) ==
    IF s # <<>> /\ s[Len(s)] \in Whitespace
    THEN RStrip(SubSeq(s, 1, Len(s) - 1))
    ELSE s

\* s.strip()
Strip(s) == RStrip(LStrip(s))

\* s.lstrip('-')
RECURSIVE LStripHyphen(_)
LStripHyphen(s) ==
    IF s # <<>> /\ Head(s) = "-" THEN LStripHyphen(Tail(s)) ELSE s

\* first index i >= from with s[i] = "\n" and s[i+1] = "-", or 0
RECURSIVE IndexNewlineHyphen(_, _)
IndexNewlineHyphen(s, from) ==
    IF from + 1 > Len(s) THEN 0
    ELSE IF s[from] = "\n" /\ s[from + 1] = "-" THEN from
    ELSE IndexNewlineHyphen(s, from + 1)

\* s.split('\n-'): the pieces between the non-overlapping occurrences, left to right
RECURSIVE SplitNewlineHyphen(_)
SplitNewlineHyphen(s) ==
    LET i == IndexNewlineHyphen(s, 1) IN
    IF i = 0 THEN <<s>>
    ELSE <<SubSeq(s, 1, i - 1)>> \o SplitNewlineHyphen(SubSeq(s, i + 2, Len(s)))

-----------------------------------------------------------------------------
(* parse_review *)

NoMatch == [found |-> FALSE, group |-> <<>>]

\* re.search(MARKER(.*?)(?=STOP|\Z), text, re.DOTALL): the leftmost marker, then the
\* shortest text up to the first STOP after it, or up to the end of the text
SearchUntil(text, marker, stop) ==
    LET m == IndexFrom(text, marker, 1) IN
    IF m = 0 THEN NoMatch
    ELSE LET e == IndexFrom(text, stop, m + 1) IN
         [found |-> TRUE,
          group |-> IF e = 0 THEN SubSeq(text, m + 1, Len(text))
                    ELSE SubSeq(text, m + 1, e - 1)]

\* re.search(MARKER(.*), text, re.DOTALL): the leftmost marker and all that follows
SearchToEnd(text, marker) ==
    LET m == IndexFrom(text, marker, 1) IN
    IF m = 0 THEN NoMatch
    ELSE [found |-> TRUE, group |-> SubSeq(text, m + 1, Len(text))]

summary_match(text) == SearchUntil(text, SummaryMarker, StrengthsMarker)

\* mutant: the Strengths lookahead names the wrong marker
strengths_match_wrong_stop(text) == SearchUntil(text, StrengthsMarker, QuestionsMarker)

strengths_match(text) == SearchUntil(text, StrengthsMarker, WeaknessesMarker)

weaknesses_match(text) == SearchUntil(text, WeaknessesMarker, QuestionsMarker)

questions_match(text) == SearchToEnd(text, QuestionsMarker)

\* the loop over raw_points: strip, drop leading hyphens, strip, keep the non-empty
RECURSIVE cleaned_points(_)
cleaned_points(raw_points) ==
    IF raw_points = <<>> THEN <<>>
    ELSE LET cleaned == Strip(LStripHyphen(Strip(Head(raw_points)))) IN
         (IF cleaned # <<>> THEN <<cleaned>> ELSE <<>>)
             \o cleaned_points(Tail(raw_points))

\* sections[section_name] for one of the three bullet sections
section_points(match) ==
    IF match.found
    THEN cleaned_points(SplitNewlineHyphen(Strip(match.group)))
    ELSE <<>>

parse_review(v) ==
    IF ~IsStr(v)
    THEN [Summary |-> <<Placeholder>>, Strengths |-> <<>>,
          Weaknesses |-> <<>>, Questions |-> <<>>]
    ELSE LET sm == summary_match(v.val) IN
         [Summary    |-> IF sm.found /\ Strip(sm.group) # <<>>
                         THEN <<Strip(sm.group)>> ELSE <<>>,
          Strengths  |-> section_points(strengths_match(v.val)),
          Weaknesses |-> section_points(weaknesses_match(v.val)),
          Questions  |-> section_points(questions_match(v.val))]

-----------------------------------------------------------------------------
(* load_global_data: the loaded tables and datasets *)

\* data/user.csv: Name, User
user_df == <<[Name |-> "Alice", User |-> "u1"], [Name |-> "Bob", User |-> "u2"]>>

\* data/mapping.csv: user, paper_1, paper_2 (Bob has no row)
mapping_df == <<[user |-> "u1", paper_1 |-> "p1", paper_2 |-> "p2"]>>

PaperIds == {"p1", "p2"}

NoPaper == "None"

SelectPrompt == "Select..."

EmptyDataset == <<>>

\* data_store as load_global_data builds it before any file is read
EmptyStore ==
    [colm    |-> [v5_3 |-> EmptyDataset, v5_5 |-> EmptyDataset],
     neurips |-> [v5_3 |-> EmptyDataset, v5_5 |-> EmptyDataset]]

-----------------------------------------------------------------------------
(* get_paper_details *)

COLM_PDF_DIR == "pdfs_colm"

NEURIPS_PDF_DIR == "pdfs_neurips"

PdfPath(dir, paper_id) == dir \o "/" \o paper_id \o ".pdf"

NotFound ==
    [pdf_path |-> "None", review_53 |-> PyNone, review_55 |-> PyNone, source |-> "None"]

\* mutant: a variant missing in COLM is filled from NeurIPS
get_paper_details_filled(paper_id, store) ==
    IF paper_id \in DOMAIN store.colm.v5_3 \/ paper_id \in DOMAIN store.colm.v5_5
    THEN [pdf_path  |-> PdfPath(COLM_PDF_DIR, paper_id),
          review_53 |-> IF paper_id \in DOMAIN store.colm.v5_3
                        THEN store.colm.v5_3[paper_id]
                        ELSE DatasetGet(store.neurips.v5_3, paper_id),
          review_55 |-> IF paper_id \in DOMAIN store.colm.v5_5
                        THEN store.colm.v5_5[paper_id]
                        ELSE DatasetGet(store.neurips.v5_5, paper_id),
          source    |-> "COLM"]
    ELSE IF paper_id \in DOMAIN store.neurips.v5_3
              \/ paper_id \in DOMAIN store.neurips.v5_5
    THEN [pdf_path  |-> PdfPath(NEURIPS_PDF_DIR, paper_id),
          review_53 |-> DatasetGet(store.neurips.v5_3, paper_id),
          review_55 |-> DatasetGet(store.neurips.v5_5, paper_id),
          source    |-> "NeurIPS"]
    ELSE NotFound

get_paper_details(paper_id, store) ==
    IF paper_id \in DOMAIN store.colm.v5_3 \/ paper_id \in DOMAIN store.colm.v5_5
    THEN [pdf_path  |-> PdfPath(COLM_PDF_DIR, paper_id),
          review_53 |-> DatasetGet(store.colm.v5_3, paper_id),
          review_55 |-> DatasetGet(store.colm.v5_5, paper_id),
          source    |-> "COLM"]
    ELSE IF paper_id \in DOMAIN store.neurips.v5_3
              \/ paper_id \in DOMAIN store.neurips.v5_5
    THEN [pdf_path  |-> PdfPath(NEURIPS_PDF_DIR, paper_id),
          review_53 |-> DatasetGet(store.neurips.v5_3, paper_id),
          review_55 |-> DatasetGet(store.neurips.v5_5, paper_id),
          source    |-> "NeurIPS"]
    ELSE NotFound

NotCalled == [called |-> FALSE]

-----------------------------------------------------------------------------
(* save_results and the results file *)

Columns ==
    <<"timestamp", "user", "paper_id", "review_type", "section", "point_index",
      "point_text", "rating">>

NoFile == [exists |-> FALSE, lines |-> <<>>]

HeaderLine == [header |-> Columns]

RowLine(record) == [row |-> record]

RECURSIVE RowLines(_)
RowLines(records) ==
    IF records = <<>> THEN <<>>
    ELSE <<RowLine(Head(records))>> \o RowLines(Tail(records))

\* df.to_csv(RESULTS_CSV_PATH, index=False): a new file, header then rows
WriteNew(new_records) ==
    [exists |-> TRUE, lines |-> <<HeaderLine>> \o RowLines(new_records)]

\* df.to_csv(RESULTS_CSV_PATH, mode='a', header=False, index=False)
WriteAppend(file, new_records) ==
    [exists |-> TRUE, lines |-> file.lines \o RowLines(new_records)]

\* mutant: the file is rewritten on every call
save_results_rewrites(file, new_records) == WriteNew(new_records)

\* save_results run without interruption
save_results(file, new_records) ==
    IF ~file.exists THEN WriteNew(new_records) ELSE WriteAppend(file, new_records)

-----------------------------------------------------------------------------
(* State of the parts a specification does not exercise *)

FormIdle ==
    /\ selected_name = SelectPrompt
    /\ selected_paper_id = NoPaper
    /\ session_state = <<>>
    /\ now = 0
    /\ verdict = "none"

Sessions == {"s1", "s2"}

SaveIdle ==
    /\ save_pc = [s \in Sessions |-> "idle"]
    /\ save_records = [s \in Sessions |-> <<>>]

ParseIdle ==
    /\ review_text = PyNone
    /\ parsed = [Summary |-> <<>>, Strengths |-> <<>>, Weaknesses |-> <<>>,
                 Questions |-> <<>>]
    /\ parse_pc = "input"

-----------------------------------------------------------------------------
(* Parser specification: parse_review applied to None, to every text of up to *)
(* MaxLen tokens, and to the texts that hold the four markers once each in    *)
(* canonical order around representative section contents.                    *)

ShortTexts == UNION {[1..n -> Tokens] : n \in 0..MaxLen}

SectionContents ==
    { <<>>,
      <<"\n">>,
      <<"\n", "x", "x", "\n">>,
      <<"\n", "-", " ", "x", "\n", "-", "x", " ", "x", "\n">>,
      <<" ", "-", "x", "\n", " ", "-", "x">>,
      <<"-", "-", "x", "-", "x", "\n", "-", "\n", "-", "x">>,
      <<"x", "\n", "x", "\n", "-">> }

CanonicalTexts ==
    { <<SummaryMarker>> \o a \o <<StrengthsMarker>> \o b
          \o <<WeaknessesMarker>> \o c \o <<QuestionsMarker>> \o d :
      a \in SectionContents, b \in SectionContents,
      c \in SectionContents, d \in SectionContents }

Texts == ShortTexts \cup CanonicalTexts

NotParsed == [Summary |-> <<>>, Strengths |-> <<>>, Weaknesses |-> <<>>, Questions |-> <<>>]

InitParse ==
    /\ review_text \in {PyNone} \cup {PyStr(t) : t \in Texts}
    /\ parsed = NotParsed
    /\ parse_pc = "input"
    /\ data_store = EmptyStore
    /\ details = NotCalled
    /\ FormIdle
    /\ results_csv = NoFile
    /\ submitted = <<>>
    /\ SaveIdle

ParseReview ==
    /\ parse_pc = "input"
    /\ parsed' = parse_review(review_text)
    /\ parse_pc' = "parsed"
    /\ UNCHANGED <<review_text, data_store, details, form_vars, results_csv,
                   submitted, save_vars>>

NextParse == ParseReview

SpecParse == InitParse /\ [][NextParse]_vars

-----------------------------------------------------------------------------
(* What the text says about its sections, stated without the regexes *)

SectionNames == <<"Summary", "Strengths", "Weaknesses", "Questions">>

MarkerOf ==
    [Summary |-> SummaryMarker, Strengths |-> StrengthsMarker,
     Weaknesses |-> WeaknessesMarker, Questions |-> QuestionsMarker]

Occurrences(t, tok) == {i \in 1..Len(t) : t[i] = tok}

MinOf(S) == CHOOSE i \in S : \A j \in S : i <= j

\* the text between the first occurrence of the marker and the next marker of any
\* kind after it, or the end of the text
Between(t, marker) ==
    LET i == MinOf(Occurrences(t, marker))
        later == {j \in (i + 1)..Len(t) : t[j] \in Markers}
    IN  SubSeq(t, i + 1, IF later = {} THEN Len(t) ELSE MinOf(later) - 1)

\* the section as the text delimits it: one trimmed block for Summary, the bullet
\* points for the other three
Delimited(t, sec) ==
    IF sec = "Summary"
    THEN (IF Strip(Between(t, SummaryMarker)) = <<>> THEN <<>>
          ELSE <<Strip(Between(t, SummaryMarker))>>)
    ELSE cleaned_points(SplitNewlineHyphen(Strip(Between(t, MarkerOf[sec]))))

\* each marker occurs exactly once, Summary < Strengths < Weaknesses < Questions
CanonicalOrder(t) ==
    /\ \A m \in Markers : Cardinality(Occurrences(t, m)) = 1
    /\ \A k \in 1..3 :
         MinOf(Occurrences(t, MarkerOf[SectionNames[k]]))
             < MinOf(Occurrences(t, MarkerOf[SectionNames[k + 1]]))

RECURSIVE Flatten(_)
Flatten(points) ==
    IF points = <<>> THEN <<>> ELSE Head(points) \o Flatten(Tail(points))

CountOf(s, tok) == Cardinality(Occurrences(s, tok))

\* nothing of another section is in this one: no marker, and exactly the content
\* characters of the section's own text
NoLeak(t, p, sec) ==
    /\ \A m \in Markers : CountOf(Flatten(p[sec]), m) = 0
    /\ CountOf(Flatten(p[sec]), "x") = CountOf(Between(t, MarkerOf[sec]), "x")

ParsedText == parse_pc = "parsed" /\ IsStr(review_text)

-----------------------------------------------------------------------------
(* C7 *)

\* C7 (as stated): for any text with the four markers in canonical order the parser
\* yields a non-empty Summary and bullet lists without cross-section leakage.
C7_AsStated ==
    (ParsedText /\ CanonicalOrder(review_text.val)) =>
        /\ parsed.Summary # <<>>
        /\ \A k \in 1..4 : NoLeak(review_text.val, parsed, SectionNames[k])

\* C7 (amended): for any text with the four markers once each in canonical order,
\* every section is exactly what its own marker delimits (Summary one trimmed
\* block, present exactly when the text between the Summary and Strengths markers is
\* not blank; the others the bullets of their own text) and nothing leaks across.
C7_CanonicalSections ==
    (ParsedText /\ CanonicalOrder(review_text.val)) =>
        /\ parsed.Summary # <<>> <=> Strip(Between(review_text.val, SummaryMarker)) # <<>>
        /\ \A k \in 1..4 :
             /\ parsed[SectionNames[k]] = Delimited(review_text.val, SectionNames[k])
             /\ NoLeak(review_text.val, parsed, SectionNames[k])

C7_Witness ==
    /\ ParsedText
    /\ CanonicalOrder(review_text.val)
    /\ Len(parsed.Summary) = 1
    /\ Len(parsed.Strengths) = 2
    /\ Len(parsed.Weaknesses) = 1
    /\ Len(parsed.Questions) = 2

-----------------------------------------------------------------------------
(* C9 *)

\* no marker occurs twice, the markers present are in canonical order, one is missing
SomeMissing(t) ==
    /\ \A m \in Markers : Cardinality(Occurrences(t, m)) <= 1
    /\ \A j, k \in 1..4 :
         (/\ j < k
          /\ Occurrences(t, MarkerOf[SectionNames[j]]) # {}
          /\ Occurrences(t, MarkerOf[SectionNames[k]]) # {}) =>
             MinOf(Occurrences(t, MarkerOf[SectionNames[j]]))
                 < MinOf(Occurrences(t, MarkerOf[SectionNames[k]]))
    /\ \E m \in Markers : Occurrences(t, m) = {}

\* C9: when some markers are missing, a section whose marker is present gets exactly
\* the text between its marker and the next marker present in the text (or the end).
C9_NextPresentMarker ==
    (ParsedText /\ SomeMissing(review_text.val)) =>
        \A k \in 1..4 :
            Occurrences(review_text.val, MarkerOf[SectionNames[k]]) # {} =>
                parsed[SectionNames[k]] = Delimited(review_text.val, SectionNames[k])

-----------------------------------------------------------------------------
(* The script run: sidebar, resolution, blind order, rating form *)

GRADING_OPTIONS ==
    <<"Select...", "Completely Disagree", "Mostly Disagree", "Mostly Agree",
      "Completely Agree">>

VariantIds == <<"5_3", "5_5">>

PointSections == <<"Strengths", "Weaknesses", "Questions">>

UserNames == {user_df[i].Name : i \in DOMAIN user_df}

\* user_df[user_df['Name'] == selected_name]['User'].iloc[0]
current_user_id(name) ==
    IF name \in UserNames
    THEN user_df[CHOOSE i \in DOMAIN user_df : user_df[i].Name = name].User
    ELSE "None"

\* mapping_df[mapping_df['user'] == current_user_id]
user_mapping(name) ==
    SelectSeq(mapping_df, LAMBDA row : row.user = current_user_id(name))

\* the options of the "Choose Paper" radio: [p1, p2] of the first mapping row
PaperOptions(name) ==
    IF user_mapping(name) = <<>> THEN <<>>
    ELSE <<user_mapping(name)[1].paper_1, user_mapping(name)[1].paper_2>>

\* reviews_map = {'5_3': review_53, '5_5': review_55}
reviews_map(paper_id, store) ==
    [v5_3 |-> get_paper_details(paper_id, store).review_53,
     v5_5 |-> get_paper_details(paper_id, store).review_55]

\* reviews_map.get(r_type)
ReviewOf(map, r_type) == IF r_type = "5_3" THEN map.v5_3 ELSE map.v5_5

\* what the run shows below the sidebar
View(name, paper_id, store) ==
    IF current_user_id(name) = "None" \/ paper_id = NoPaper THEN "info"
    ELSE IF get_paper_details(paper_id, store).source = "None" THEN "not_found"
    ELSE IF ~Truthy(reviews_map(paper_id, store).v5_3)
              /\ ~Truthy(reviews_map(paper_id, store).v5_5) THEN "entries_empty"
    ELSE "form"

\* session_key = f"order_{selected_paper_id}"
session_key(paper_id) == "order_" \o paper_id

\* s_key = f"{selected_paper_id}_{r_type}_Summary"
s_key(paper_id, r_type) == paper_id \o "_" \o r_type \o "_Summary"

\* p_key = f"{selected_paper_id}_{r_type}_{section}_{i}", i from 0
p_key(paper_id, r_type, section, i) ==
    paper_id \o "_" \o r_type \o "_" \o section \o "_" \o ToString(i)

\* random.shuffle(opts): either order of ['5_3', '5_5']
Shuffles == {<<"5_3", "5_5">>, <<"5_5", "5_3">>}

\* mutant: the order is shuffled on every run
review_order_choices_reshuffled(ss, paper_id) == Shuffles

\* the values review_order can take in this run: the binding of the session if
\* there is one, else a fresh shuffle
review_order_choices(ss, paper_id) ==
    IF session_key(paper_id) \in DOMAIN ss
    THEN {ss[session_key(paper_id)]}
    ELSE Shuffles

\* the text the form shows for a payload
render_text(raw_data) ==
    IF IsDict(raw_data)
    THEN LET first == DictGet(raw_data, "inference_review", PyStr(<<>>)) IN
         IF Truthy(first) THEN first
         ELSE DictGet(raw_data, "prediction", PyStr(<<>>))
    ELSE IF IsStr(raw_data) THEN raw_data
    ELSE PyStr(<<>>)

\* the keys of the selectboxes one tab renders
RenderedKeys(paper_id, r_type, raw_data) ==
    LET parsed_data == parse_review(render_text(raw_data)) IN
    {s_key(paper_id, r_type)} \cup
    UNION {{p_key(paper_id, r_type, PointSections[k], i - 1) :
               i \in DOMAIN parsed_data[PointSections[k]]} :
           k \in DOMAIN PointSections}

\* the keys of the selectboxes of both tabs
FormKeys(paper_id, store) ==
    UNION {RenderedKeys(paper_id, VariantIds[k],
                        ReviewOf(reviews_map(paper_id, store), VariantIds[k])) :
           k \in 1..2}

\* st.selectbox(..., options=GRADING_OPTIONS, key=...): a key the session does not
\* hold yet gets the first option, a key it holds keeps its value
WithWidgets(ss, keys) ==
    [k \in DOMAIN ss \cup keys |-> IF k \in DOMAIN ss THEN ss[k] ELSE GRADING_OPTIONS[1]]

\* st.session_state after one run of the script in which review_order is `order`
Rendered(ss, name, paper_id, store, order) ==
    IF View(name, paper_id, store) # "form" THEN ss
    ELSE WithWidgets(
             [k \in DOMAIN ss \cup {session_key(paper_id)} |->
                 IF k = session_key(paper_id) THEN order ELSE ss[k]],
             FormKeys(paper_id, store))

\* the script runs top to bottom with the given widget inputs
Rerun(ss, name, paper_id) ==
    \E order \in review_order_choices(ss, paper_id) :
        session_state' = Rendered(ss, name, paper_id, data_store, order)

-----------------------------------------------------------------------------
(* The "Submit Evaluation" handler *)

\* mutant: the handler walks the display order
submit_types_display_order(ss, paper_id) == ss[session_key(paper_id)]

\* the list the handler walks: for r_type in ['5_3', '5_5']
submit_types(ss, paper_id) == <<"5_3", "5_5">>

\* txt_sub = raw_sub.get("inference_review", "") if isinstance(raw_sub, dict) else raw_sub
submit_text(raw_sub) ==
    IF IsDict(raw_sub) THEN DictGet(raw_sub, "inference_review", PyStr(<<>>))
    ELSE raw_sub

\* not st.session_state.get(key) or st.session_state.get(key) == "Select..."
Unset(ss, key) == key \notin DOMAIN ss \/ ss[key] = "Select..."

Record(ts, user, paper_id, r_type, section, i, txt, rating) ==
    [timestamp |-> ts, user |-> user, paper_id |-> paper_id, review_type |-> r_type,
     section |-> section, point_index |-> i, point_text |-> txt, rating |-> rating]

\* mutant: an unset point leaves the loop without clearing `valid`
RECURSIVE check_points_keeps_valid(_, _, _, _, _, _, _)
check_points_keeps_valid(ss, c, r_type, sec, points, i, st) ==
    IF i > Len(points) THEN st
    ELSE IF Unset(ss, p_key(c.paper_id, r_type, sec, i - 1))
    THEN st
    ELSE check_points_keeps_valid(ss, c, r_type, sec, points, i + 1,
             [st EXCEPT !.records = Append(@,
                 Record(c.ts, c.user, c.paper_id, r_type, sec, i - 1, points[i],
                        ss[p_key(c.paper_id, r_type, sec, i - 1)]))])

\* for i, txt in enumerate(parsed_sub.get(sec, [])): an unset point clears `valid`
\* and leaves this loop only
RECURSIVE check_points(_, _, _, _, _, _, _)
check_points(ss, c, r_type, sec, points, i, st) ==
    IF i > Len(points) THEN st
    ELSE IF Unset(ss, p_key(c.paper_id, r_type, sec, i - 1))
    THEN [st EXCEPT !.valid = FALSE]
    ELSE check_points(ss, c, r_type, sec, points, i + 1,
             [st EXCEPT !.records = Append(@,
                 Record(c.ts, c.user, c.paper_id, r_type, sec, i - 1, points[i],
                        ss[p_key(c.paper_id, r_type, sec, i - 1)]))])

\* for sec in ["Strengths", "Weaknesses", "Questions"]: all three are walked
RECURSIVE check_sections(_, _, _, _, _, _)
check_sections(ss, c, r_type, parsed_sub, k, st) ==
    IF k > Len(PointSections) THEN st
    ELSE check_sections(ss, c, r_type, parsed_sub, k + 1,
             check_points(ss, c, r_type, PointSections[k],
                          parsed_sub[PointSections[k]], 1, st))

\* for r_type in [...]: the Summary check, the Summary record, the sections
RECURSIVE check_types(_, _, _, _, _, _)
check_types(ss, c, map, types, k, st) ==
    IF k > Len(types) THEN st
    ELSE LET r_type == types[k]
             parsed_sub == parse_review(submit_text(ReviewOf(map, r_type)))
         IN  IF Unset(ss, s_key(c.paper_id, r_type))
             THEN [st EXCEPT !.valid = FALSE]
             ELSE IF parsed_sub.Summary = <<>>
             THEN [st EXCEPT !.raised = "IndexError"]
             ELSE LET after == check_sections(ss, c, r_type, parsed_sub, 1,
                                 [st EXCEPT !.records = Append(@,
                                     Record(c.ts, c.user, c.paper_id, r_type,
                                            "Summary", 0, parsed_sub.Summary[1],
                                            ss[s_key(c.paper_id, r_type)]))])
                  IN  IF ~after.valid THEN after
                      ELSE check_types(ss, c, map, types, k + 1, after)

\* records, valid and the exception raised, as the handler leaves them before
\* `if valid:`
submit_evaluation(ss, name, paper_id, store, ts) ==
    check_types(ss,
                [ts |-> ts, user |-> current_user_id(name), paper_id |-> paper_id],
                reviews_map(paper_id, store), submit_types(ss, paper_id), 1,
                [records |-> <<>>, valid |-> TRUE, raised |-> "None"])

Outcome(result) ==
    IF result.raised # "None" THEN result.raised
    ELSE IF result.valid THEN "saved"
    ELSE "incomplete"

-----------------------------------------------------------------------------
(* Form specification: one session over one loaded data store *)

\* the options the modelled user picks from
RatingChoices == {GRADING_OPTIONS[1], GRADING_OPTIONS[4]}

\* texts of the payloads
TSummary == <<SummaryMarker, "x">>

TSummaryStrengths == <<SummaryMarker, "x", StrengthsMarker, "-", "x">>

TStrengths == <<StrengthsMarker, "-", "x">>

TThreeSections ==
    <<SummaryMarker, "x", "\n", StrengthsMarker, "\n", "-", "x", "\n",
      WeaknessesMarker, "\n", "-", "x", "x">>

Absent == [type |-> "absent"]

DatasetOf(paper_id, payload) ==
    IF payload = Absent THEN EmptyDataset ELSE [p \in {paper_id} |-> payload]

\* p1 in COLM with the two payloads; p2 in no dataset
StoreOf(r53, r55) ==
    [colm    |-> [v5_3 |-> DatasetOf("p1", r53), v5_5 |-> DatasetOf("p1", r55)],
     neurips |-> [v5_3 |-> EmptyDataset, v5_5 |-> EmptyDataset]]

\* the same with p2 in NeurIPS, its '5_3' a Summary-only text and its '5_5' null
WithSecondPaper(store) ==
    [store EXCEPT !.neurips = [v5_3 |-> DatasetOf("p2", PyStr(TSummary)),
                               v5_5 |-> DatasetOf("p2", PyNone)]]

OnlyKey(key, text) == PyDict([k \in {key} |-> PyStr(text)])

DataStores ==
    { StoreOf(Absent, PyStr(TSummaryStrengths)),
      WithSecondPaper(StoreOf(PyStr(TSummary), PyStr(TSummaryStrengths))),
      StoreOf(PyStr(TStrengths), Absent),
      StoreOf(OnlyKey("prediction", TSummaryStrengths), PyStr(TSummary)),
      StoreOf(OnlyKey("inference_review", TSummaryStrengths), PyStr(<<>>)),
      StoreOf(PyDict([k \in {"inference_review", "prediction"} |->
                        IF k = "prediction" THEN PyStr(TSummary) ELSE PyStr(<<>>)]),
              PyStr(TSummary)),
      StoreOf(PyStr(TThreeSections), PyNone),
      StoreOf(PyNone, PyStr(TThreeSections)),
      WithSecondPaper(StoreOf(PyStr(TSummary), OnlyKey("inference_review", TSummary))),
      StoreOf(PyStr(<<>>), PyDict(<<>>)) }

Init ==
    /\ data_store \in DataStores
    /\ details = NotCalled
    /\ ParseIdle
    /\ FormIdle
    /\ results_csv = NoFile
    /\ submitted = <<>>
    /\ SaveIdle

\* the user picks an entry of the "Select User" selectbox; the radio of a user
\* with papers starts on its first option
SelectUser(name) ==
    /\ name # selected_name
    /\ selected_name' = name
    /\ selected_paper_id' =
           IF PaperOptions(name) = <<>> THEN NoPaper ELSE PaperOptions(name)[1]
    /\ Rerun(session_state, name, selected_paper_id')
    /\ verdict' = "none"
    /\ UNCHANGED <<parse_vars, data_store, details, results_csv, now, submitted,
                   save_vars>>

\* the user picks the other option of the "Choose Paper" radio
ChoosePaper(k) ==
    /\ k \in DOMAIN PaperOptions(selected_name)
    /\ PaperOptions(selected_name)[k] # selected_paper_id
    /\ selected_paper_id' = PaperOptions(selected_name)[k]
    /\ Rerun(session_state, selected_name, selected_paper_id')
    /\ verdict' = "none"
    /\ UNCHANGED <<parse_vars, data_store, details, selected_name, results_csv, now,
                   submitted, save_vars>>

\* the user changes one selectbox of the form
SetRating(key, value) ==
    /\ View(selected_name, selected_paper_id, data_store) = "form"
    /\ key \in FormKeys(selected_paper_id, data_store)
    /\ session_state[key] # value
    /\ Rerun([session_state EXCEPT ![key] = value], selected_name, selected_paper_id)
    /\ verdict' = "none"
    /\ UNCHANGED <<parse_vars, data_store, details, selected_name, selected_paper_id,
                   results_csv, now, submitted, save_vars>>

\* the user presses "Submit Evaluation": the script runs, then the handler
Submit ==
    /\ View(selected_name, selected_paper_id, data_store) = "form"
    /\ now < MaxSubmits
    /\ Rerun(session_state, selected_name, selected_paper_id)
    /\ LET result == submit_evaluation(session_state', selected_name,
                                       selected_paper_id, data_store, now)
       IN  /\ verdict' = Outcome(result)
           /\ IF Outcome(result) = "saved"
              THEN /\ results_csv' = save_results(results_csv, result.records)
                   /\ submitted' = Append(submitted, result.records)
                   /\ now' = now + 1
              ELSE UNCHANGED <<results_csv, submitted, now>>
    /\ UNCHANGED <<parse_vars, data_store, details, selected_name, selected_paper_id,
                   save_vars>>

Next ==
    \/ \E name \in UserNames \cup {SelectPrompt} : SelectUser(name)
    \/ \E k \in 1..2 : ChoosePaper(k)
    \/ \E key \in DOMAIN session_state, value \in RatingChoices : SetRating(key, value)
    \/ Submit

Spec == Init /\ [][Next]_vars

-----------------------------------------------------------------------------
(* What a Submit press is expected to check and to write *)

\* the last run handled a Submit press
Pressed == verdict # "none"

FormShown == View(selected_name, selected_paper_id, data_store) = "form"

\* the controls the handler expects for one variant: those of its own re-parse
SubmitKeys(paper_id, r_type, raw_sub) ==
    LET parsed_sub == parse_review(submit_text(raw_sub)) IN
    {s_key(paper_id, r_type)} \cup
    UNION {{p_key(paper_id, r_type, PointSections[k], i - 1) :
               i \in DOMAIN parsed_sub[PointSections[k]]} :
           k \in DOMAIN PointSections}

ExpectedKeys(paper_id, store) ==
    UNION {SubmitKeys(paper_id, VariantIds[k],
                      ReviewOf(reviews_map(paper_id, store), VariantIds[k])) :
           k \in 1..2}

RECURSIVE Concat(_)
Concat(batches) ==
    IF batches = <<>> THEN <<>> ELSE Head(batches) \o Concat(Tail(batches))

LastBatch == submitted[Len(submitted)]

RowsOf(batch, r_type, section) ==
    SelectSeq(batch, LAMBDA r : r.review_type = r_type /\ r.section = section)

-----------------------------------------------------------------------------
(* C1 *)

\* C1: a Submit press with any expected control unset (the Summary control or a point
\* control of the submit-time re-parse of '5_3' or '5_5', holding "Select..." or
\* absent from the session) never calls save_results and leaves the log unchanged.
C1_SubmitIsAtomic ==
    [][(/\ verdict' # "none"
        /\ \E key \in ExpectedKeys(selected_paper_id, data_store) :
               Unset(session_state, key))
       => (/\ results_csv' = results_csv
           /\ submitted' = submitted
           /\ verdict' # "saved")]_vars

\* only the last point of '5_5' is unset, every other control is rated, and the press
\* wrote nothing
C1_Witness ==
    /\ verdict = "incomplete"
    /\ selected_paper_id = "p1"
    /\ p_key("p1", "5_5", "Weaknesses", 0) \in ExpectedKeys("p1", data_store)
    /\ \A key \in FormKeys("p1", data_store) :
           Unset(session_state, key) <=> key = p_key("p1", "5_5", "Weaknesses", 0)
    /\ results_csv = NoFile

-----------------------------------------------------------------------------
(* C2 *)

\* the rows of one variant in a batch: one Summary row with index 0, then per
\* section the rows 0..n-1 of the re-parsed points, in order
VariantRowsOk(batch, r_type, parsed_sub) ==
    /\ Len(RowsOf(batch, r_type, "Summary")) = 1
    /\ RowsOf(batch, r_type, "Summary")[1].point_index = 0
    /\ \A k \in DOMAIN PointSections :
         LET rows == RowsOf(batch, r_type, PointSections[k]) IN
         /\ Len(rows) = Len(parsed_sub[PointSections[k]])
         /\ \A i \in DOMAIN rows :
              /\ rows[i].point_index = i - 1
              /\ rows[i].point_text = parsed_sub[PointSections[k]][i]

RowCount(parsed_sub) ==
    1 + Len(parsed_sub.Strengths) + Len(parsed_sub.Weaknesses)
      + Len(parsed_sub.Questions)

\* C2: on a resolved paper with a non-empty payload, a Submit press with every
\* control rated succeeds and appends per variant 1 + |Strengths| + |Weaknesses| +
\* |Questions| rows, Summary with index 0 and each section indexed 0..n-1, also when
\* a variant's parsed Summary is empty.
C2_AllRatedSubmitSaves ==
    (/\ Pressed
     /\ FormShown
     /\ \A key \in FormKeys(selected_paper_id, data_store) : ~Unset(session_state, key))
    => LET map == reviews_map(selected_paper_id, data_store)
           p53 == parse_review(submit_text(map.v5_3))
           p55 == parse_review(submit_text(map.v5_5))
       IN  /\ verdict = "saved"
           /\ Len(LastBatch) = RowCount(p53) + RowCount(p55)
           /\ VariantRowsOk(LastBatch, "5_3", p53)
           /\ VariantRowsOk(LastBatch, "5_5", p55)

-----------------------------------------------------------------------------
(* C3 *)

\* C3: for each variant and payload shape the review parsed at submit time is the
\* review parsed at render time, so the rating controls validated on submit are
\* exactly the rating controls rendered for that variant.
C3_ValidatedAreRendered ==
    (Pressed /\ FormShown) =>
        \A k \in 1..2 :
            LET raw == ReviewOf(reviews_map(selected_paper_id, data_store),
                                VariantIds[k])
            IN  SubmitKeys(selected_paper_id, VariantIds[k], raw)
                    = RenderedKeys(selected_paper_id, VariantIds[k], raw)

-----------------------------------------------------------------------------
(* C4 *)

OrderBound(paper_id) == session_key(paper_id) \in DOMAIN session_state

\* C4: the order binding of a paper is chosen when its form is first shown, is a
\* permutation of {'5_3', '5_5'}, and no later run of the session changes or removes
\* it, whatever is selected, rated or submitted, for either paper.
C4_OrderBindingStable ==
    /\ [](/\ \A p \in PaperIds :
               OrderBound(p) => session_state[session_key(p)] \in Shuffles
          /\ FormShown => OrderBound(selected_paper_id))
    /\ [][\A p \in PaperIds :
             OrderBound(p) =>
                 /\ session_key(p) \in DOMAIN session_state'
                 /\ session_state'[session_key(p)] = session_state[session_key(p)]]_vars

\* both papers are bound, to different orders, and the user is back on the first
\* paper after a submission of the second
C4_Witness ==
    /\ OrderBound("p1")
    /\ OrderBound("p2")
    /\ session_state[session_key("p1")] # session_state[session_key("p2")]
    /\ selected_paper_id = "p1"
    /\ submitted # <<>>
    /\ LastBatch[1].paper_id = "p2"

-----------------------------------------------------------------------------
(* C6 *)

\* C6: after the k-th successful submission made one after another the log is one
\* header, written when the file did not exist, then the rows of submissions 1..k in
\* order; before the first there is no file.
C6_LogIsHeaderThenBatches ==
    IF submitted = <<>> THEN results_csv = NoFile
    ELSE /\ results_csv.exists
         /\ results_csv.lines = <<HeaderLine>> \o RowLines(Concat(submitted))

C6_Witness ==
    /\ Len(submitted) = 2
    /\ submitted[1][1].paper_id # submitted[2][1].paper_id
    /\ Len(results_csv.lines) = 1 + Len(submitted[1]) + Len(submitted[2])

-----------------------------------------------------------------------------
(* C10 *)

Reverse(order) == <<order[2], order[1]>>

\* the session with the other order binding for the paper and the same ratings
Swapped(ss, paper_id) ==
    [ss EXCEPT ![session_key(paper_id)] = Reverse(@)]

\* the clock the last press read
PressTime == IF verdict = "saved" THEN now - 1 ELSE now

\* C10: Submit does not depend on the display order: the session with the other
\* order binding and the same ratings gets the same verdict and, on success, the same
\* rows in the same order, '5_3' rows first.
C10_SubmitIgnoresOrder ==
    (Pressed /\ FormShown) =>
        LET mine  == submit_evaluation(session_state, selected_name,
                                       selected_paper_id, data_store, PressTime)
            other == submit_evaluation(Swapped(session_state, selected_paper_id),
                                       selected_name, selected_paper_id, data_store,
                                       PressTime)
        IN  /\ verdict = Outcome(mine)
            /\ Outcome(other) = Outcome(mine)
            /\ verdict = "saved" =>
                 /\ LastBatch = mine.records
                 /\ other.records = mine.records
                 /\ \A i, j \in DOMAIN LastBatch :
                      (LastBatch[i].review_type = "5_3"
                          /\ LastBatch[j].review_type = "5_5") => i < j

\* a successful press in a session that shows '5_5' as Review Set A
C10_Witness ==
    /\ verdict = "saved"
    /\ session_state[session_key(selected_paper_id)] = <<"5_5", "5_3">>
    /\ Len(RowsOf(LastBatch, "5_3", "Summary")) = 1
    /\ Len(RowsOf(LastBatch, "5_5", "Strengths")) = 1

-----------------------------------------------------------------------------
(* Concurrent specification: two sessions whose Submit handlers reach           *)
(* save_results around the same time.  The os.path.exists test and the to_csv   *)
(* write of one call are separate steps; each to_csv is taken as one step.      *)

ConcStore == WithSecondPaper(StoreOf(PyStr(TSummary), PyStr(TSummaryStrengths)))

\* the paper each session evaluates
PaperOf == [s \in Sessions |-> IF s = "s1" THEN "p1" ELSE "p2"]

\* a session that has rated every control of its paper
RatedSession(paper_id) ==
    [k \in {session_key(paper_id)} \cup FormKeys(paper_id, ConcStore) |->
        IF k = session_key(paper_id) THEN VariantIds ELSE GRADING_OPTIONS[4]]

\* the records its handler hands to save_results
RecordsOf(s, ts) ==
    submit_evaluation(RatedSession(PaperOf[s]), "Alice", PaperOf[s], ConcStore,
                      ts).records

InitConc ==
    /\ data_store = ConcStore
    /\ details = NotCalled
    /\ ParseIdle
    /\ FormIdle
    /\ results_csv = NoFile
    /\ submitted = <<>>
    /\ SaveIdle

\* save_results is entered: df is built and os.path.exists is evaluated
SaveCheck(s) ==
    /\ save_pc[s] = "idle"
    /\ now < MaxSaves
    /\ save_records' = [save_records EXCEPT ![s] = RecordsOf(s, now)]
    /\ save_pc' = [save_pc EXCEPT ![s] =
                      IF ~results_csv.exists THEN "write_new" ELSE "append"]
    /\ now' = now + 1
    /\ UNCHANGED <<parse_vars, data_store, details, selected_name, selected_paper_id,
                   session_state, verdict, results_csv, submitted>>

\* the branch taken writes the file
SaveWrite(s) ==
    /\ save_pc[s] # "idle"
    /\ results_csv' = IF save_pc[s] = "write_new" THEN WriteNew(save_records[s])
                      ELSE WriteAppend(results_csv, save_records[s])
    /\ submitted' = Append(submitted, save_records[s])
    /\ save_pc' = [save_pc EXCEPT ![s] = "idle"]
    /\ save_records' = [save_records EXCEPT ![s] = <<>>]
    /\ UNCHANGED <<parse_vars, data_store, details, form_vars>>

NextConc ==
    \/ \E s \in Sessions : SaveCheck(s)
    \/ \E s \in Sessions : SaveWrite(s)

SpecConc == InitConc /\ [][NextConc]_vars

-----------------------------------------------------------------------------
(* C8 *)

HeaderCount(lines) == Cardinality({i \in DOMAIN lines : lines[i] = HeaderLine})

\* C8: when two sessions submit around the same time, with the existence check and
\* the write of save_results interleaving, the log stays append-only: once both are
\* done it holds exactly one header and every row of every submission.
C8_ConcurrentAppendOnly ==
    (submitted # <<>> /\ \A s \in Sessions : save_pc[s] = "idle") =>
        /\ results_csv.exists
        /\ HeaderCount(results_csv.lines) = 1
        /\ \A b \in DOMAIN submitted : \A i \in DOMAIN submitted[b] :
               \E l \in DOMAIN results_csv.lines :
                   results_csv.lines[l] = RowLine(submitted[b][i])

-----------------------------------------------------------------------------
(* Resolver specification: get_paper_details over every way the two papers can *)
(* be present in the four datasets.  Each payload names the dataset it is from. *)

OriginPayload(collection, variant, paper_id) == PyStr(<<collection, variant, paper_id>>)

OriginDataset(collection, variant, ids) ==
    [p \in ids |-> OriginPayload(collection, variant, p)]

ResolveStores ==
    { [colm    |-> [v5_3 |-> OriginDataset("colm", "5_3", a),
                    v5_5 |-> OriginDataset("colm", "5_5", b)],
       neurips |-> [v5_3 |-> OriginDataset("neurips", "5_3", c),
                    v5_5 |-> OriginDataset("neurips", "5_5", d)]] :
      a \in SUBSET PaperIds, b \in SUBSET PaperIds,
      c \in SUBSET PaperIds, d \in SUBSET PaperIds }

\* the ids looked up: the two papers and one that is in no dataset
LookupIds == PaperIds \cup {"p3"}

InitResolve ==
    /\ data_store \in ResolveStores
    /\ details = NotCalled
    /\ ParseIdle
    /\ FormIdle
    /\ results_csv = NoFile
    /\ submitted = <<>>
    /\ SaveIdle

GetPaperDetails(paper_id) ==
    /\ details' = [called |-> TRUE, paper_id |-> paper_id,
                   result |-> get_paper_details(paper_id, data_store)]
    /\ UNCHANGED <<parse_vars, data_store, form_vars, results_csv, submitted,
                   save_vars>>

NextResolve == \E paper_id \in LookupIds : GetPaperDetails(paper_id)

SpecResolve == InitResolve /\ [][NextResolve]_vars

-----------------------------------------------------------------------------
(* C5 *)

InCollection(coll, paper_id) ==
    paper_id \in DOMAIN coll.v5_3 \/ paper_id \in DOMAIN coll.v5_5

\* both payloads are the resolved collection's own, a missing one is None
FromCollection(r, coll, name, paper_id) ==
    /\ r.review_53 = IF paper_id \in DOMAIN coll.v5_3
                     THEN OriginPayload(name, "5_3", paper_id) ELSE PyNone
    /\ r.review_55 = IF paper_id \in DOMAIN coll.v5_5
                     THEN OriginPayload(name, "5_5", paper_id) ELSE PyNone

\* C5: get_paper_details resolves to COLM when the id is a key of either COLM
\* dataset, else to NeurIPS when it is a key of either NeurIPS dataset, else to
\* "not found" (all four None); the PDF path and both payloads come from the one
\* resolved collection, a variant missing there is None, also when the id is in both.
C5_FirstCollectionAuthoritative ==
    details.called =>
        LET id == details.paper_id
            r  == details.result
        IN  /\ InCollection(data_store.colm, id) =>
                  /\ r.source = "COLM"
                  /\ r.pdf_path = "pdfs_colm/" \o id \o ".pdf"
                  /\ FromCollection(r, data_store.colm, "colm", id)
            /\ (~InCollection(data_store.colm, id)
                    /\ InCollection(data_store.neurips, id)) =>
                  /\ r.source = "NeurIPS"
                  /\ r.pdf_path = "pdfs_neurips/" \o id \o ".pdf"
                  /\ FromCollection(r, data_store.neurips, "neurips", id)
            /\ (~InCollection(data_store.colm, id)
                    /\ ~InCollection(data_store.neurips, id)) =>
                  /\ r.source = "None"
                  /\ r.pdf_path = "None"
                  /\ r.review_53 = PyNone
                  /\ r.review_55 = PyNone

\* the id is in both collections and COLM lacks the variant NeurIPS has
C5_Witness ==
    /\ details.called
    /\ details.paper_id \in DOMAIN data_store.colm.v5_3
    /\ details.paper_id \notin DOMAIN data_store.colm.v5_5
    /\ details.paper_id \in DOMAIN data_store.neurips.v5_5
    /\ details.result.source = "COLM"
    /\ details.result.review_55 = PyNone

====
